---- MODULE Spec2Model ----
(***************************************************************************)
(* Model of src/e621/io/mod.rs: the Config and Login stores, their         *)
(* process-wide OnceCell slots, and the two JSON files they read and       *)
(* write (config.json, login.json).                                        *)
(*                                                                         *)
(* Strings are sequences of one-character strings, so that to_lowercase    *)
(* and str::contains are computed character by character.  The text of a   *)
(* file is kept at the level of its JSON tokens: an object is the sequence *)
(* of its members (key, value) in file order; text that is no JSON object  *)
(* is "garbage", and bytes that are no UTF-8 are "binary".                 *)
(***************************************************************************)
EXTENDS Integers, Sequences, FiniteSets, TLC

VARIABLES
    configFile,  \* config.json on disk
    loginFile,   \* login.json on disk
    CONFIG,      \* static CONFIG: OnceCell<Config>
    LOGIN,       \* static LOGIN: OnceCell<Login>
    status,      \* "running", "panicked" after a failed expect(), "exiting", "exited"
    last,        \* the last call made: its name, its result, the log lines it emitted
    emergency,   \* emergency_exit: where it stands, what it printed, stdin, the exit status
    threads      \* the threads that call initialize concurrently, each with its locals

vars == <<configFile, loginFile, CONFIG, LOGIN, status, last, emergency, threads>>

----------------------------------------------------------------------------
(* Bounds of the sampled inputs *)

\* how many of NamePool's strings occur as the "Username" value of an edited login.json
NumNames == 2
\* how many of ConvPool's strings occur as "fileNamingConvention" of an edited config.json
NumConvs == 4
\* how many of DirPool's strings occur as "downloadDirectory" of an edited config.json
NumDirs == 2

----------------------------------------------------------------------------
(* Strings *)

UpperAlpha == <<"A","B","C","D","E","F","G","H","I","J","K","L","M",
                "N","O","P","Q","R","S","T","U","V","W","X","Y","Z">>
LowerAlpha == <<"a","b","c","d","e","f","g","h","i","j","k","l","m",
                "n","o","p","q","r","s","t","u","v","w","x","y","z">>

ToLowerChar(c) ==
    IF \E i \in 1..Len(UpperAlpha) : UpperAlpha[i] = c
    THEN LowerAlpha[CHOOSE i \in 1..Len(UpperAlpha) : UpperAlpha[i] = c]
    ELSE c

\* str::to_lowercase
ToLowercase(s) == [i \in 1..Len(s) |-> ToLowerChar(s[i])]

\* str::contains(&str): needle occurs in hay as a substring
StrContains(hay, needle) ==
    \E i \in 0..(Len(hay) - Len(needle)) :
        \A j \in 1..Len(needle) : hay[i + j] = needle[j]

EmptyStr == <<>>

CONFIG_NAME == <<"c","o","n","f","i","g",".","j","s","o","n">>
LOGIN_NAME == <<"l","o","g","i","n",".","j","s","o","n">>

\* serde renames of Config's fields
K_downloadDirectory ==
    <<"d","o","w","n","l","o","a","d","D","i","r","e","c","t","o","r","y">>
K_fileNamingConvention ==
    <<"f","i","l","e","N","a","m","i","n","g","C","o","n","v","e","n","t","i","o","n">>

\* serde renames of Login's fields
K_Username == <<"U","s","e","r","n","a","m","e">>
K_APIKey == <<"A","P","I","K","e","y">>
K_DownloadFavorites ==
    <<"D","o","w","n","l","o","a","d","F","a","v","o","r","i","t","e","s">>
K_IgnoreBlacklistOnFavorites ==
    <<"I","g","n","o","r","e","B","l","a","c","k","l","i","s","t",
      "O","n","F","a","v","o","r","i","t","e","s">>

S_md5 == <<"m","d","5">>
S_id == <<"i","d">>
S_downloads == <<"d","o","w","n","l","o","a","d","s","/">>

----------------------------------------------------------------------------
(* JSON text *)

StrV(s) == [t |-> "str", s |-> s, b |-> FALSE]
BoolV(b) == [t |-> "bool", s |-> EmptyStr, b |-> b]
NumV == [t |-> "num", s |-> EmptyStr, b |-> FALSE]

Member(k, v) == [key |-> k, val |-> v]

Object(ms) == [kind |-> "object", members |-> ms]
Garbage == [kind |-> "garbage", members |-> <<>>]
Binary == [kind |-> "binary", members |-> <<>>]
NoText == [kind |-> "none", members |-> <<>>]

\* content.contains(key) on the text of a JSON object: the letters of a key can
\* only occur inside a string token (a member's key or a string value)
TextContains(text, key) ==
    \E i \in 1..Len(text.members) :
        \/ StrContains(text.members[i].key, key)
        \/ /\ text.members[i].val.t = "str"
           /\ StrContains(text.members[i].val.s, key)

\* how serde's derived visitor finds a field among the members of an object
FieldState(ms, key, type) ==
    LET occ == {i \in 1..Len(ms) : ms[i].key = key}
    IN  IF occ = {} THEN "missing"
        ELSE IF Cardinality(occ) > 1 THEN "duplicate"
        ELSE IF ms[CHOOSE i \in occ : TRUE].val.t # type THEN "invalid_type"
        ELSE "ok"

FieldValue(ms, key) == ms[CHOOSE i \in 1..Len(ms) : ms[i].key = key].val

----------------------------------------------------------------------------
(* Results and errors *)

NoVal == [none |-> TRUE]
Unit == [unit |-> TRUE]
NoErr == [kind |-> "none", value |-> EmptyStr]

Ok(v) == [ok |-> TRUE, val |-> v, err |-> NoErr]
Err(e) == [ok |-> FALSE, val |-> NoVal, err |-> e]

\* a call that panicked returns nothing to its caller
Aborted == [ok |-> FALSE, val |-> NoVal, err |-> [kind |-> "panic", value |-> EmptyStr]]

ReadError == [kind |-> "read", value |-> EmptyStr]
WriteError == [kind |-> "write", value |-> EmptyStr]
ParseError == [kind |-> "parse", value |-> EmptyStr]
\* "Failed to read config file: config.json" / "Failed to parse config file: config.json"
ConfigReadError == [kind |-> "read", value |-> CONFIG_NAME]
ConfigParseError == [kind |-> "parse", value |-> CONFIG_NAME]
\* "Invalid naming convention: {}. Must be one of: ..."
ValidationError(conv) == [kind |-> "validation", value |-> conv]
\* "Config has already been initialized!" / "Login has already been initialized!"
AlreadyInitialized == [kind |-> "already_initialized", value |-> EmptyStr]

----------------------------------------------------------------------------
(* The file system, for one path *)

AbsentFile(canCreate) ==
    [exists |-> FALSE, canRead |-> FALSE, canWrite |-> canCreate, text |-> NoText]

\* Path::exists
PathExists(f) == f.exists

\* std::fs::read_to_string
ReadToString(f) ==
    IF f.exists /\ f.canRead /\ f.text.kind # "binary" THEN Ok(f.text) ELSE Err(ReadError)

\* std::fs::write: creates the file or replaces its contents
FsWrite(f, text) ==
    IF f.canWrite
    THEN [ok |-> TRUE,
          file |-> [exists |-> TRUE,
                    canRead |-> IF f.exists THEN f.canRead ELSE TRUE,
                    canWrite |-> TRUE,
                    text |-> text]]
    ELSE [ok |-> FALSE, file |-> f]

----------------------------------------------------------------------------
(* once_cell::sync::OnceCell *)

EmptyCell == [set |-> FALSE, val |-> NoVal]

OnceCellSet_Overwrite(cell, v) == [ok |-> TRUE, cell |-> [set |-> TRUE, val |-> v]]

\* OnceCell::set: Err (and the cell untouched) when the cell is already full
OnceCellSet(cell, v) ==
    IF cell.set
    THEN [ok |-> FALSE, cell |-> cell]
    ELSE [ok |-> TRUE, cell |-> [set |-> TRUE, val |-> v]]

----------------------------------------------------------------------------
(* Config *)

DefaultConfig == [download_directory |-> S_downloads, naming_convention |-> S_md5]

\* the fields under their Rust names, as without #[serde(rename)]
ToStringPrettyConfig_Unrenamed(c) ==
    Object(<<Member(<<"d","o","w","n","l","o","a","d","_","d","i","r","e","c","t","o","r","y">>,
                    StrV(c.download_directory)),
             Member(<<"n","a","m","i","n","g","_","c","o","n","v","e","n","t","i","o","n">>,
                    StrV(c.naming_convention))>>)

\* serde_json::to_string_pretty(&Config)
ToStringPrettyConfig(c) ==
    Object(<<Member(K_downloadDirectory, StrV(c.download_directory)),
             Member(K_fileNamingConvention, StrV(c.naming_convention))>>)

\* serde_json::from_str::<Config>: both fields are required, unknown keys are ignored
FromStrConfig(text) ==
    IF text.kind # "object" THEN Err(ParseError)
    ELSE IF /\ FieldState(text.members, K_downloadDirectory, "str") = "ok"
            /\ FieldState(text.members, K_fileNamingConvention, "str") = "ok"
    THEN Ok([download_directory |-> FieldValue(text.members, K_downloadDirectory).s,
             naming_convention |-> FieldValue(text.members, K_fileNamingConvention).s])
    ELSE Err(ParseError)

Conventions == {S_md5, S_id}

LoadConfig_NoValidation(f) ==
    LET r == ReadToString(f)
    IN  IF ~r.ok THEN Err(ConfigReadError)
        ELSE LET p == FromStrConfig(r.val)
             IN  IF ~p.ok THEN Err(ConfigParseError)
                 ELSE Ok([p.val EXCEPT !.naming_convention = ToLowercase(@)])

LoadConfig_NoLowercase(f) ==
    LET r == ReadToString(f)
    IN  IF ~r.ok THEN Err(ConfigReadError)
        ELSE LET p == FromStrConfig(r.val)
             IN  IF ~p.ok THEN Err(ConfigParseError)
                 ELSE IF p.val.naming_convention \notin Conventions
                      THEN Err(ValidationError(p.val.naming_convention))
                      ELSE Ok(p.val)

\* Config::load_config
LoadConfig(f) ==
    LET r == ReadToString(f)
    IN  IF ~r.ok THEN Err(ConfigReadError)
        ELSE LET p == FromStrConfig(r.val)
             IN  IF ~p.ok THEN Err(ConfigParseError)
                 ELSE LET config == [p.val EXCEPT !.naming_convention = ToLowercase(@)]
                      IN  IF config.naming_convention \notin Conventions
                          THEN Err(ValidationError(config.naming_convention))
                          ELSE Ok(config)

Call(op, res, log) == [op |-> op, res |-> res, log |-> log]

\* Config::config_exists
ConfigExists ==
    /\ status = "running"
    /\ last' = Call("Config.config_exists", Ok(BoolV(PathExists(configFile))),
                    IF PathExists(configFile) THEN {} ELSE {"trace: config.json: does not exist!"})
    /\ UNCHANGED <<emergency, threads, configFile, loginFile, CONFIG, LOGIN, status>>

\* Config::create_config
CreateConfig ==
    /\ status = "running"
    /\ LET w == FsWrite(configFile, ToStringPrettyConfig(DefaultConfig))
       IN  /\ configFile' = w.file
           /\ last' = Call("Config.create_config",
                           IF w.ok THEN Ok(Unit) ELSE Err(WriteError), {})
    /\ UNCHANGED <<emergency, threads, loginFile, CONFIG, LOGIN, status>>

\* get that falls back to the default instead of panicking on an empty cell
ConfigGet_OrDefault ==
    /\ status = "running"
    /\ last' = Call("Config.get", Ok(IF CONFIG.set THEN CONFIG.val ELSE DefaultConfig), {})
    /\ UNCHANGED <<emergency, threads, configFile, loginFile, CONFIG, LOGIN, status>>

\* Config::get
ConfigGet ==
    /\ status = "running"
    /\ IF CONFIG.set
       THEN /\ last' = Call("Config.get", Ok(CONFIG.val), {})
            /\ UNCHANGED status
       ELSE /\ last' = Call("Config.get", Aborted, {"panic: Config has not been initialized!"})
            /\ status' = "panicked"
    /\ UNCHANGED <<emergency, threads, configFile, loginFile, CONFIG, LOGIN>>

\* Config::load_config, called on its own
ConfigLoadConfig ==
    /\ status = "running"
    /\ last' = Call("Config.load_config", LoadConfig(configFile), {})
    /\ UNCHANGED <<emergency, threads, configFile, loginFile, CONFIG, LOGIN, status>>

\* initialize that heals config.json the way Login::load heals login.json:
\* when the load fails it writes the default file
ConfigInitialize_SelfHealing ==
    /\ status = "running"
    /\ LET r == LoadConfig(configFile)
       IN  IF ~r.ok
           THEN /\ last' = Call("Config.initialize", Err(r.err), {})
                /\ configFile' = FsWrite(configFile, ToStringPrettyConfig(DefaultConfig)).file
                /\ UNCHANGED CONFIG
           ELSE LET s == OnceCellSet(CONFIG, r.val)
                IN  /\ CONFIG' = s.cell
                    /\ UNCHANGED configFile
                    /\ last' = Call("Config.initialize",
                                    IF s.ok THEN Ok(Unit) ELSE Err(AlreadyInitialized), {})
    /\ UNCHANGED <<emergency, threads, loginFile, LOGIN, status>>

\* initialize that, like Login::initialize, stores the default when the load fails
ConfigInitialize_DefaultOnFailure ==
    /\ status = "running"
    /\ LET r == LoadConfig(configFile)
           s == OnceCellSet(CONFIG, IF r.ok THEN r.val ELSE DefaultConfig)
       IN  /\ CONFIG' = s.cell
           /\ last' = Call("Config.initialize",
                           IF ~r.ok THEN Err(r.err)
                           ELSE IF s.ok THEN Ok(Unit) ELSE Err(AlreadyInitialized), {})
    /\ UNCHANGED <<emergency, threads, configFile, loginFile, LOGIN, status>>

\* Config::initialize
ConfigInitialize ==
    /\ status = "running"
    /\ LET r == LoadConfig(configFile)
       IN  IF ~r.ok
           THEN /\ last' = Call("Config.initialize", Err(r.err), {})
                /\ UNCHANGED CONFIG
           ELSE LET s == OnceCellSet(CONFIG, r.val)
                IN  /\ CONFIG' = s.cell
                    /\ last' = Call("Config.initialize",
                                    IF s.ok THEN Ok(Unit) ELSE Err(AlreadyInitialized), {})
    /\ UNCHANGED <<emergency, threads, configFile, loginFile, LOGIN, status>>

----------------------------------------------------------------------------
(* Login *)

default_true == TRUE

DefaultLogin_FavoritesOff ==
    [username |-> EmptyStr, api_key |-> EmptyStr,
     download_favorites |-> FALSE, ignore_blacklist_on_favorites |-> TRUE]

\* impl Default for Login
DefaultLogin ==
    [username |-> EmptyStr, api_key |-> EmptyStr,
     download_favorites |-> TRUE, ignore_blacklist_on_favorites |-> TRUE]

\* serialization that skips the last field
ToStringPrettyLogin_DropsField(l) ==
    Object(<<Member(K_Username, StrV(l.username)),
             Member(K_APIKey, StrV(l.api_key)),
             Member(K_DownloadFavorites, BoolV(l.download_favorites))>>)

\* serde_json::to_string_pretty(&Login)
ToStringPrettyLogin(l) ==
    Object(<<Member(K_Username, StrV(l.username)),
             Member(K_APIKey, StrV(l.api_key)),
             Member(K_DownloadFavorites, BoolV(l.download_favorites)),
             Member(K_IgnoreBlacklistOnFavorites, BoolV(l.ignore_blacklist_on_favorites))>>)

\* a field with #[serde(default)]: its value in the object, or the default
FieldOr(ms, key, dflt) ==
    IF FieldState(ms, key, dflt.t) = "missing" THEN dflt ELSE FieldValue(ms, key)

\* serde_json::from_str::<Login>: every field has a default, unknown keys are ignored
FromStrLogin(text) ==
    IF text.kind # "object" THEN Err(ParseError)
    ELSE IF /\ FieldState(text.members, K_Username, "str") \in {"ok", "missing"}
            /\ FieldState(text.members, K_APIKey, "str") \in {"ok", "missing"}
            /\ FieldState(text.members, K_DownloadFavorites, "bool") \in {"ok", "missing"}
            /\ FieldState(text.members, K_IgnoreBlacklistOnFavorites, "bool")
                   \in {"ok", "missing"}
    THEN Ok([username |-> FieldOr(text.members, K_Username, StrV(EmptyStr)).s,
             api_key |-> FieldOr(text.members, K_APIKey, StrV(EmptyStr)).s,
             download_favorites |->
                 FieldOr(text.members, K_DownloadFavorites, BoolV(default_true)).b,
             ignore_blacklist_on_favorites |->
                 FieldOr(text.members, K_IgnoreBlacklistOnFavorites, BoolV(default_true)).b])
    ELSE Err(ParseError)

\* Login::save_to_file
SaveToFile(l, f) == FsWrite(f, ToStringPrettyLogin(l))

Created == "info: The login file was created."

\* create_login that logs its guidance and never saves
CreateLogin_NoSave(l, f) == [ok |-> TRUE, file |-> f, log |-> {Created}]

\* Login::create_login
CreateLogin(l, f) ==
    LET w == SaveToFile(l, f)
    IN  [ok |-> w.ok, file |-> w.file,
         log |-> IF w.ok THEN {Created} ELSE {}]

expected_keys ==
    <<K_Username, K_APIKey, K_DownloadFavorites, K_IgnoreBlacklistOnFavorites>>

MissingOptions == "warn: The login.json file was missing some options"

Out(res, file, log) == [res |-> res, file |-> file, log |-> log]

\* load whose repair pass persists Login::default() instead of the parsed login
Load_RepairWithDefaults(f) ==
    IF ~PathExists(f)
    THEN LET c == CreateLogin(DefaultLogin, f)
         IN  IF ~c.ok THEN Out(Err(WriteError), c.file, c.log)
             ELSE Out(Ok(DefaultLogin), c.file, c.log)
    ELSE LET r == ReadToString(f)
         IN  IF ~r.ok THEN Out(Err(ReadError), f, {})
             ELSE LET p == FromStrLogin(r.val)
                  IN  IF ~p.ok THEN Out(Err(ParseError), f, {})
                      ELSE IF \E i \in 1..Len(expected_keys) :
                                  ~TextContains(r.val, expected_keys[i])
                      THEN LET w == SaveToFile(DefaultLogin, f)
                           IN  IF ~w.ok THEN Out(Err(WriteError), w.file, {MissingOptions})
                               ELSE Out(Ok(p.val), w.file, {MissingOptions})
                      ELSE Out(Ok(p.val), f, {})

\* Login::load: its result, login.json afterwards, and the log lines emitted
Load(f) ==
    IF ~PathExists(f)
    THEN LET c == CreateLogin(DefaultLogin, f)
         IN  IF ~c.ok THEN Out(Err(WriteError), c.file, c.log)
             ELSE Out(Ok(DefaultLogin), c.file, c.log)
    ELSE LET r == ReadToString(f)
         IN  IF ~r.ok THEN Out(Err(ReadError), f, {})
             ELSE LET p == FromStrLogin(r.val)
                  IN  IF ~p.ok THEN Out(Err(ParseError), f, {})
                      ELSE IF \E i \in 1..Len(expected_keys) :
                                  ~TextContains(r.val, expected_keys[i])
                      THEN LET w == SaveToFile(p.val, f)
                           IN  IF ~w.ok THEN Out(Err(WriteError), w.file, {MissingOptions})
                               ELSE Out(Ok(p.val), w.file, {MissingOptions})
                      ELSE Out(Ok(p.val), f, {})

\* Login::load, called on its own
LoginLoad ==
    /\ status = "running"
    /\ LET o == Load(loginFile)
       IN  /\ loginFile' = o.file
           /\ last' = Call("Login.load", o.res, o.log)
    /\ UNCHANGED <<emergency, threads, configFile, CONFIG, LOGIN, status>>

UnableToLoad == "error: Unable to load login.json"

\* initialize that propagates load's error with the ? operator, as Config::initialize does
LoginInitialize_Propagate ==
    /\ status = "running"
    /\ LET o == Load(loginFile)
       IN  /\ loginFile' = o.file
           /\ IF ~o.res.ok
              THEN /\ last' = Call("Login.initialize", Err(o.res.err), o.log)
                   /\ UNCHANGED LOGIN
              ELSE LET s == OnceCellSet(LOGIN, o.res.val)
                   IN  /\ LOGIN' = s.cell
                       /\ last' = Call("Login.initialize",
                                       IF s.ok THEN Ok(Unit) ELSE Err(AlreadyInitialized),
                                       o.log)
    /\ UNCHANGED <<emergency, threads, configFile, CONFIG, status>>

\* initialize that also persists the default it substitutes
LoginInitialize_SaveDefaultOnError ==
    /\ status = "running"
    /\ LET o == Load(loginFile)
           login == IF o.res.ok THEN o.res.val ELSE DefaultLogin
           log == IF o.res.ok THEN o.log ELSE o.log \cup {UnableToLoad}
           s == OnceCellSet(LOGIN, login)
       IN  /\ loginFile' = IF o.res.ok THEN o.file ELSE SaveToFile(DefaultLogin, o.file).file
           /\ LOGIN' = s.cell
           /\ last' = Call("Login.initialize",
                           IF s.ok THEN Ok(Unit) ELSE Err(AlreadyInitialized), log)
    /\ UNCHANGED <<emergency, threads, configFile, CONFIG, status>>

\* Login::initialize
LoginInitialize ==
    /\ status = "running"
    /\ LET o == Load(loginFile)
           login == IF o.res.ok THEN o.res.val ELSE DefaultLogin
           log == IF o.res.ok THEN o.log ELSE o.log \cup {UnableToLoad}
           s == OnceCellSet(LOGIN, login)
       IN  /\ loginFile' = o.file
           /\ LOGIN' = s.cell
           /\ last' = Call("Login.initialize",
                           IF s.ok THEN Ok(Unit) ELSE Err(AlreadyInitialized), log)
    /\ UNCHANGED <<emergency, threads, configFile, CONFIG, status>>

\* Login::get
LoginGet ==
    /\ status = "running"
    /\ IF LOGIN.set
       THEN /\ last' = Call("Login.get", Ok(LOGIN.val), {})
            /\ UNCHANGED status
       ELSE /\ last' = Call("Login.get", Aborted, {"panic: Login has not been initialized!"})
            /\ status' = "panicked"
    /\ UNCHANGED <<emergency, threads, configFile, loginFile, CONFIG, LOGIN>>

\* is_empty with && for ||
IsEmpty_Both(l) == Len(l.username) = 0 /\ Len(l.api_key) = 0

\* Login::is_empty
IsEmpty(l) ==
    IF Len(l.username) = 0 \/ Len(l.api_key) = 0 THEN TRUE ELSE FALSE

\* Login::is_empty, called on the login that get() hands out
LoginIsEmpty ==
    /\ status = "running"
    /\ LOGIN.set
    /\ last' = Call("Login.is_empty", Ok(BoolV(IsEmpty(LOGIN.val))), {})
    /\ UNCHANGED <<emergency, threads, configFile, loginFile, CONFIG, LOGIN, status>>

----------------------------------------------------------------------------
(* emergency_exit *)

\* exit(0x00FF)
ExitStatus == 255

PressEnter == "Press ENTER to close the application..."

\* stdin: nothing to read yet ("pending"), or what read_line will find
StdinOutcomes == {"line", "eof", "error"}

NotCalled(stdin) ==
    [pc |-> "idle", error |-> "", out |-> <<>>, stdin |-> stdin, read |-> "none",
     code |-> -1]

\* the call, up to info!("{error}")
EmergencyExit ==
    /\ status = "running"
    /\ \E error \in {"Config could not be loaded", ""} :
          emergency' = [emergency EXCEPT !.pc = "logged", !.error = error,
                                         !.out = <<"info: " \o error>>]
    /\ status' = "exiting"
    /\ last' = Call("emergency_exit", Aborted, {})
    /\ UNCHANGED <<configFile, loginFile, CONFIG, LOGIN, threads>>

\* println!("Press ENTER to close the application...")
EmergencyPrompt ==
    /\ emergency.pc = "logged"
    /\ emergency' = [emergency EXCEPT !.pc = "prompted", !.out = Append(@, PressEnter)]
    /\ UNCHANGED <<configFile, loginFile, CONFIG, LOGIN, status, last, threads>>

\* read_line with .unwrap(): an error of the read panics
EmergencyReadLine_Unwrap ==
    /\ emergency.pc = "prompted"
    /\ emergency.stdin \in StdinOutcomes
    /\ IF emergency.stdin = "error"
       THEN /\ emergency' = [emergency EXCEPT !.pc = "panicked", !.read = "error"]
            /\ status' = "panicked"
       ELSE /\ emergency' = [emergency EXCEPT !.pc = "acknowledged", !.read = emergency.stdin]
            /\ UNCHANGED status
    /\ UNCHANGED <<configFile, loginFile, CONFIG, LOGIN, last, threads>>

\* io::stdin().read_line(&mut line).unwrap_or_default(): blocks until stdin
\* holds a line, is at its end or fails, and goes on in each case
EmergencyReadLine ==
    /\ emergency.pc = "prompted"
    /\ emergency.stdin \in StdinOutcomes
    /\ emergency' = [emergency EXCEPT !.pc = "acknowledged", !.read = emergency.stdin]
    /\ UNCHANGED <<configFile, loginFile, CONFIG, LOGIN, status, last, threads>>

\* exit(0x00FF)
EmergencyTerminate ==
    /\ emergency.pc = "acknowledged"
    /\ emergency' = [emergency EXCEPT !.pc = "exited", !.code = ExitStatus]
    /\ status' = "exited"
    /\ UNCHANGED <<configFile, loginFile, CONFIG, LOGIN, last, threads>>

\* the user presses ENTER, closes stdin, or the terminal fails
StdinArrives ==
    /\ emergency.stdin = "pending"
    /\ status \in {"running", "exiting"}
    /\ \E o \in StdinOutcomes : emergency' = [emergency EXCEPT !.stdin = o]
    /\ UNCHANGED <<configFile, loginFile, CONFIG, LOGIN, status, last, threads>>

----------------------------------------------------------------------------
(* Concurrent calls of initialize, one per thread, all on the same store.   *)
(* A thread takes one step per access to what the threads share: a file     *)
(* system call or the OnceCell's set.  std::fs::write is two such calls:    *)
(* the open that creates or truncates the file, then the write.             *)

\* how many threads call initialize
NumThreads == 2

Threads == 1..NumThreads

\* a file just created or truncated
Empty == [kind |-> "empty", members |-> <<>>]

NoRes == [ok |-> FALSE, val |-> NoVal, err |-> NoErr]

\* a thread about to call initialize of the store
ThreadStart(store) ==
    [store |-> store, pc |-> "start", value |-> NoVal, text |-> NoText,
     res |-> NoRes, got |-> NoRes]

ThreadCell(t) == IF threads[t].store = "Config" THEN CONFIG ELSE LOGIN

\* File::create inside std::fs::write
OpenTruncate(f) ==
    IF f.canWrite
    THEN [ok |-> TRUE,
          file |-> [exists |-> TRUE,
                    canRead |-> IF f.exists THEN f.canRead ELSE TRUE,
                    canWrite |-> TRUE,
                    text |-> Empty]]
    ELSE [ok |-> FALSE, file |-> f]

\* Config::initialize, to the end of load_config
ThreadLoadConfig(t) ==
    /\ threads[t].store = "Config"
    /\ threads[t].pc = "start"
    /\ LET r == LoadConfig(configFile)
       IN  threads' = [threads EXCEPT ![t] =
              IF r.ok THEN [@ EXCEPT !.pc = "loaded", !.value = r.val]
              ELSE [@ EXCEPT !.pc = "done", !.res = Err(r.err)]]
    /\ UNCHANGED <<configFile, loginFile, CONFIG, LOGIN, status, last, emergency>>

\* Login::load: login_path.exists()
ThreadExists(t) ==
    /\ threads[t].store = "Login"
    /\ threads[t].pc = "start"
    /\ threads' = [threads EXCEPT ![t].pc =
                      IF PathExists(loginFile) THEN "read" ELSE "open",
                   ![t].text =
                      IF PathExists(loginFile) THEN NoText
                      ELSE ToStringPrettyLogin(DefaultLogin),
                   ![t].value =
                      IF PathExists(loginFile) THEN NoVal ELSE DefaultLogin]
    /\ UNCHANGED <<configFile, loginFile, CONFIG, LOGIN, status, last, emergency>>

\* Login::load: read_to_string, from_str and the scan for the field names;
\* an error makes initialize go on with Login::default()
ThreadRead(t) ==
    /\ threads[t].store = "Login"
    /\ threads[t].pc = "read"
    /\ LET r == ReadToString(loginFile)
           p == IF r.ok THEN FromStrLogin(r.val) ELSE Err(ReadError)
       IN  threads' = [threads EXCEPT ![t] =
              IF ~p.ok THEN [@ EXCEPT !.pc = "loaded", !.value = DefaultLogin]
              ELSE IF \E i \in 1..Len(expected_keys) :
                          ~TextContains(r.val, expected_keys[i])
              THEN [@ EXCEPT !.pc = "open", !.value = p.val,
                             !.text = ToStringPrettyLogin(p.val)]
              ELSE [@ EXCEPT !.pc = "loaded", !.value = p.val]]
    /\ UNCHANGED <<configFile, loginFile, CONFIG, LOGIN, status, last, emergency>>

\* Login::save_to_file: the open of std::fs::write
ThreadOpen(t) ==
    /\ threads[t].store = "Login"
    /\ threads[t].pc = "open"
    /\ LET o == OpenTruncate(loginFile)
       IN  /\ loginFile' = o.file
           /\ threads' = [threads EXCEPT ![t] =
                 IF o.ok THEN [@ EXCEPT !.pc = "write"]
                 ELSE [@ EXCEPT !.pc = "loaded", !.value = DefaultLogin]]
    /\ UNCHANGED <<configFile, CONFIG, LOGIN, status, last, emergency>>

\* Login::save_to_file: the write of std::fs::write, through the open file
ThreadWrite(t) ==
    /\ threads[t].store = "Login"
    /\ threads[t].pc = "write"
    /\ loginFile' = IF loginFile.exists
                    THEN [loginFile EXCEPT !.text = threads[t].text]
                    ELSE loginFile
    /\ threads' = [threads EXCEPT ![t].pc = "loaded"]
    /\ UNCHANGED <<configFile, CONFIG, LOGIN, status, last, emergency>>

\* a set that stores without looking whether the cell is full
ThreadSet_LastWriterWins(t) ==
    /\ threads[t].pc = "loaded"
    /\ IF threads[t].store = "Config"
       THEN CONFIG' = [set |-> TRUE, val |-> threads[t].value] /\ UNCHANGED LOGIN
       ELSE LOGIN' = [set |-> TRUE, val |-> threads[t].value] /\ UNCHANGED CONFIG
    /\ threads' = [threads EXCEPT ![t].pc = "done", ![t].res = Ok(Unit)]
    /\ UNCHANGED <<configFile, loginFile, status, last, emergency>>

\* CONFIG.set(config) / LOGIN.set(login) and the map_err: one atomic step of
\* the synchronized cell
ThreadSet(t) ==
    /\ threads[t].pc = "loaded"
    /\ LET s == OnceCellSet(ThreadCell(t), threads[t].value)
       IN  /\ IF threads[t].store = "Config"
              THEN CONFIG' = s.cell /\ UNCHANGED LOGIN
              ELSE LOGIN' = s.cell /\ UNCHANGED CONFIG
           /\ threads' = [threads EXCEPT
                 ![t].pc = "done",
                 ![t].res = IF s.ok THEN Ok(Unit) ELSE Err(AlreadyInitialized)]
    /\ UNCHANGED <<configFile, loginFile, status, last, emergency>>

\* get() by a thread whose initialize has returned
ThreadGet(t) ==
    /\ threads[t].pc = "done"
    /\ threads' = [threads EXCEPT
          ![t].pc = IF ThreadCell(t).set THEN "got" ELSE "panicked",
          ![t].got = IF ThreadCell(t).set THEN Ok(ThreadCell(t).val) ELSE Aborted]
    /\ UNCHANGED <<configFile, loginFile, CONFIG, LOGIN, status, last, emergency>>

----------------------------------------------------------------------------
(* The files the user may leave on disk *)

S_bob == <<"b","o","b">>
S_alice == <<"a","l","i","c","e">>
S_k1 == <<"k","1">>
S_out == <<"o","u","t","/">>
S_tmp == <<"t","m","p","/">>
S_MD5 == <<"M","D","5">>
S_Id == <<"I","d">>
S_sha256 == <<"s","h","a","2","5","6">>
S_SHA256 == <<"S","H","A","2","5","6">>
S_ID == <<"I","D">>
\* a key that neither struct knows
K_comment == <<"c","o","m","m","e","n","t">>

\* the second name is the text of another field's key
NamePool == <<S_bob, K_APIKey, EmptyStr, S_alice>>
ConvPool == <<S_md5, S_MD5, S_id, S_SHA256, S_Id, S_sha256, S_ID>>
DirPool == <<S_downloads, S_out, S_tmp>>

\* a member that is present (a one-element sequence) or left out (the empty one)
Opt(members) == {<<>>} \cup {<<m>> : m \in members}

\* an existing file is read-write, read-only, or not accessible at all
Modes == {<<TRUE, TRUE>>, <<TRUE, FALSE>>, <<FALSE, FALSE>>}

FileOf(text, mode) ==
    [exists |-> TRUE, canRead |-> mode[1], canWrite |-> mode[2], text |-> text]

FilesOf(texts) ==
    {AbsentFile(c) : c \in BOOLEAN} \cup {FileOf(t, m) : t \in texts, m \in Modes}

ConfigTexts ==
    {Garbage, Binary} \cup
    {Object(d \o c \o x) :
        d \in Opt({Member(K_downloadDirectory, StrV(DirPool[i])) : i \in 1..NumDirs}),
        c \in Opt({Member(K_fileNamingConvention, StrV(ConvPool[i])) : i \in 1..NumConvs}
                  \cup {Member(K_fileNamingConvention, NumV)}),
        x \in Opt({Member(K_fileNamingConvention, StrV(S_id)),
                   Member(K_comment, NumV)})}

LoginTexts ==
    {Garbage, Binary} \cup
    {Object(u \o a \o d \o b \o x) :
        u \in Opt({Member(K_Username, StrV(NamePool[i])) : i \in 1..NumNames}),
        a \in Opt({Member(K_APIKey, StrV(S_k1))}),
        d \in Opt({Member(K_DownloadFavorites, BoolV(FALSE))}),
        b \in Opt({Member(K_IgnoreBlacklistOnFavorites, BoolV(FALSE))}),
        x \in Opt({Member(K_IgnoreBlacklistOnFavorites, NumV)})}

ConfigFiles == FilesOf(ConfigTexts)
LoginFiles == FilesOf(LoginTexts)

\* the few files of the specification that runs both stores together
CoreConfigFiles ==
    {AbsentFile(TRUE),
     FileOf(Garbage, <<TRUE, TRUE>>),
     FileOf(ToStringPrettyConfig(DefaultConfig), <<TRUE, FALSE>>),
     FileOf(ToStringPrettyConfig([download_directory |-> S_out,
                                  naming_convention |-> S_MD5]), <<TRUE, TRUE>>),
     FileOf(ToStringPrettyConfig([download_directory |-> S_out,
                                  naming_convention |-> S_sha256]), <<TRUE, TRUE>>)}

CoreLoginFiles ==
    {AbsentFile(TRUE),
     AbsentFile(FALSE),
     FileOf(Garbage, <<TRUE, TRUE>>),
     FileOf(Object(<<Member(K_Username, StrV(S_bob))>>), <<TRUE, TRUE>>),
     FileOf(ToStringPrettyLogin([username |-> S_bob, api_key |-> S_k1,
                                 download_favorites |-> FALSE,
                                 ignore_blacklist_on_favorites |-> FALSE]),
            <<TRUE, TRUE>>)}

Edited == Call("edit", Ok(Unit), {})

\* the user replaces, deletes or re-protects config.json
EditConfig ==
    /\ status = "running"
    /\ \E f \in ConfigFiles : configFile' = f
    /\ last' = Edited
    /\ UNCHANGED <<emergency, threads, loginFile, CONFIG, LOGIN, status>>

EditLogin ==
    /\ status = "running"
    /\ \E f \in LoginFiles : loginFile' = f
    /\ last' = Edited
    /\ UNCHANGED <<emergency, threads, configFile, CONFIG, LOGIN, status>>

EditConfigCore ==
    /\ status = "running"
    /\ \E f \in CoreConfigFiles : configFile' = f
    /\ last' = Edited
    /\ UNCHANGED <<emergency, threads, loginFile, CONFIG, LOGIN, status>>

EditLoginCore ==
    /\ status = "running"
    /\ \E f \in CoreLoginFiles : loginFile' = f
    /\ last' = Edited
    /\ UNCHANGED <<emergency, threads, configFile, CONFIG, LOGIN, status>>

----------------------------------------------------------------------------
(* Specifications *)

InitProcess ==
    /\ CONFIG = EmptyCell
    /\ LOGIN = EmptyCell
    /\ status = "running"
    /\ last = Call("start", Ok(Unit), {})
    /\ emergency = NotCalled("pending")
    /\ threads = <<>>

\* both stores, over the core files
Init ==
    /\ configFile \in CoreConfigFiles
    /\ loginFile \in CoreLoginFiles
    /\ InitProcess

ConfigOps ==
    \/ ConfigExists
    \/ CreateConfig
    \/ ConfigGet
    \/ ConfigLoadConfig
    \/ ConfigInitialize

LoginOps ==
    \/ LoginLoad
    \/ LoginInitialize
    \/ LoginGet

Next ==
    \/ ConfigOps
    \/ LoginOps
    \/ EditConfigCore
    \/ EditLoginCore

Spec == Init /\ [][Next]_vars

\* the Config store alone, over every sampled config.json
InitConfig ==
    /\ configFile \in ConfigFiles
    /\ loginFile = AbsentFile(TRUE)
    /\ InitProcess

NextConfig ==
    \/ ConfigOps
    \/ EditConfig

SpecConfig == InitConfig /\ [][NextConfig]_vars

\* the Login store alone, over every sampled login.json
InitLogin ==
    /\ configFile = AbsentFile(TRUE)
    /\ loginFile \in LoginFiles
    /\ InitProcess

NextLogin ==
    \/ LoginOps
    \/ EditLogin

SpecLogin == InitLogin /\ [][NextLogin]_vars

\* the Config store with a caller that may give up through emergency_exit;
\* a thread that is running takes its next step, stdin owes nothing
InitExit ==
    /\ configFile \in CoreConfigFiles
    /\ loginFile = AbsentFile(TRUE)
    /\ CONFIG = EmptyCell
    /\ LOGIN = EmptyCell
    /\ status = "running"
    /\ last = Call("start", Ok(Unit), {})
    /\ emergency = NotCalled("pending")
    /\ threads = <<>>

NextExit ==
    \/ ConfigOps
    \/ EditConfigCore
    \/ StdinArrives
    \/ EmergencyExit
    \/ EmergencyPrompt
    \/ EmergencyReadLine
    \/ EmergencyTerminate

SpecExit ==
    /\ InitExit
    /\ [][NextExit]_vars
    /\ WF_vars(EmergencyPrompt)
    /\ WF_vars(EmergencyReadLine)
    /\ WF_vars(EmergencyTerminate)

\* is_empty over sampled Login values
SampleLogins ==
    {[username |-> u, api_key |-> a, download_favorites |-> d,
      ignore_blacklist_on_favorites |-> b] :
        u \in {EmptyStr} \cup {NamePool[i] : i \in 1..NumNames},
        a \in {EmptyStr, S_k1, S_bob},
        d \in BOOLEAN, b \in BOOLEAN}

InitIsEmpty ==
    /\ configFile = AbsentFile(TRUE)
    /\ loginFile = AbsentFile(TRUE)
    /\ CONFIG = EmptyCell
    /\ \E l \in SampleLogins : LOGIN = [set |-> TRUE, val |-> l]
    /\ status = "running"
    /\ last = Call("start", Ok(Unit), {})
    /\ emergency = NotCalled("pending")
    /\ threads = <<>>

NextIsEmpty ==
    \/ LoginIsEmpty
    \/ LoginGet

SpecIsEmpty == InitIsEmpty /\ [][NextIsEmpty]_vars

\* concurrent initialize calls on one store, the user editing its file meanwhile
\* the user edits the file of the store being initialized
UserEditsConfig == (\A t \in Threads : threads[t].store = "Config") /\ EditConfigCore

UserEditsLogin == (\A t \in Threads : threads[t].store = "Login") /\ EditLoginCore

InitThreads ==
    /\ configFile \in CoreConfigFiles
    /\ loginFile \in CoreLoginFiles
    /\ \/ loginFile = AbsentFile(TRUE) /\ threads = [t \in Threads |-> ThreadStart("Config")]
       \/ configFile = AbsentFile(TRUE) /\ threads = [t \in Threads |-> ThreadStart("Login")]
    /\ CONFIG = EmptyCell
    /\ LOGIN = EmptyCell
    /\ status = "running"
    /\ last = Call("start", Ok(Unit), {})
    /\ emergency = NotCalled("pending")

NextThreads ==
    \/ \E t \in Threads : ThreadLoadConfig(t)
    \/ \E t \in Threads : ThreadExists(t)
    \/ \E t \in Threads : ThreadRead(t)
    \/ \E t \in Threads : ThreadOpen(t)
    \/ \E t \in Threads : ThreadWrite(t)
    \/ \E t \in Threads : ThreadSet(t)
    \/ \E t \in Threads : ThreadGet(t)
    \/ UserEditsConfig
    \/ UserEditsLogin

SpecThreads == InitThreads /\ [][NextThreads]_vars

----------------------------------------------------------------------------
(* Properties *)

\* the defaults, as the specification words them
ExpectedDefaultConfig ==
    [download_directory |-> <<"d","o","w","n","l","o","a","d","s","/">>,
     naming_convention |-> <<"m","d","5">>]
ExpectedDefaultLogin ==
    [username |-> <<>>, api_key |-> <<>>,
     download_favorites |-> TRUE, ignore_blacklist_on_favorites |-> TRUE]

\* C1: for each store the slot is filled at most once and never emptied, and
\* once filled it holds the same value in every later state, whatever calls
\* are made and however config.json and login.json change on disk.
C1_SetOnce ==
    [][/\ (CONFIG.set => CONFIG' = CONFIG)
       /\ (LOGIN.set => LOGIN' = LOGIN)]_vars

\* both slots are full, a second Login.initialize has just been refused, and
\* neither file would load the stored value any more
C1_Witness ==
    /\ CONFIG.set
    /\ LOGIN.set
    /\ last.op = "Login.initialize"
    /\ ~last.res.ok
    /\ LoadConfig(configFile) # Ok(CONFIG.val)
    /\ Load(loginFile).res # Ok(LOGIN.val)

\* C2 (as claimed): once Config.initialize has succeeded, every later call
\* returns the "already initialized" error, whatever the state of config.json.
C2_AlwaysAlreadyInitialized ==
    [][(CONFIG.set /\ last'.op = "Config.initialize")
         => last'.res = Err(AlreadyInitialized)]_vars

\* C2 (amended): once Config.initialize has succeeded, every later call fails
\* and leaves the stored Config unchanged; its error is "already initialized"
\* when config.json still loads, and load_config's error otherwise.
C2_LaterCallFails ==
    [][(CONFIG.set /\ last'.op = "Config.initialize")
         => /\ ~last'.res.ok
            /\ CONFIG' = CONFIG
            /\ last'.res.err =
                  IF LoadConfig(configFile).ok THEN AlreadyInitialized
                  ELSE LoadConfig(configFile).err]_vars

\* a later Config.initialize has returned a load error, not "already initialized"
C2_Witness ==
    /\ CONFIG.set
    /\ last.op = "Config.initialize"
    /\ ~last.res.ok
    /\ last.res.err.kind \in {"read", "parse", "validation"}

\* C3: once Login.initialize has returned Ok, every later call returns the
\* "already initialized" error, whatever the state of login.json, and the
\* stored Login is unchanged.
C3_LoginAlreadyInitialized ==
    [][(LOGIN.set /\ last'.op = "Login.initialize")
         => /\ last'.res = Err(AlreadyInitialized)
            /\ LOGIN' = LOGIN]_vars

\* a later Login.initialize whose load failed has been refused
C3_Witness ==
    /\ LOGIN.set
    /\ last.op = "Login.initialize"
    /\ last.res = Err(AlreadyInitialized)
    /\ UnableToLoad \in last.log

\* C4: with the Login slot empty, Login.initialize returns Ok and fills the
\* slot for every state of login.json; whenever load() failed, the stored
\* Login is exactly the default; the only error Login.initialize ever returns
\* is the double-initialize error.
C4_LoginInitializeNeverFailsToLoad ==
    [][last'.op = "Login.initialize"
         => /\ ~LOGIN.set =>
                  /\ last'.res = Ok(Unit)
                  /\ LOGIN'.set
                  /\ ~Load(loginFile).res.ok => LOGIN'.val = ExpectedDefaultLogin
            /\ ~last'.res.ok =>
                  /\ LOGIN.set
                  /\ last'.res = Err(AlreadyInitialized)]_vars

\* the first Login.initialize has returned Ok after a failed load
C4_Witness ==
    /\ last.op = "Login.initialize"
    /\ last.res = Ok(Unit)
    /\ UnableToLoad \in last.log
    /\ LOGIN = [set |-> TRUE, val |-> ExpectedDefaultLogin]

\* C5: whenever the Config slot is full, the stored naming convention is
\* exactly "md5" or "id".
C5_StoredConventionValid ==
    CONFIG.set => CONFIG.val.naming_convention \in {<<"m","d","5">>, <<"i","d">>}

\* Config.initialize has stored "md5" from a file that says "MD5"
C5_Witness ==
    /\ CONFIG.set
    /\ last.op = "Config.initialize"
    /\ last.res.ok
    /\ FromStrConfig(configFile.text).ok
    /\ FromStrConfig(configFile.text).val.naming_convention = S_MD5
    /\ CONFIG.val.naming_convention = S_md5

\* C6: for every config.json that is readable and parses into a Config,
\* load_config succeeds iff the lowercased convention is "md5" or "id"; on
\* success it returns the lowercase convention and the file's download
\* directory; otherwise it fails with a validation error naming the
\* lowercased value.
C6_LoadConfigValidates ==
    (/\ last.op = "Config.load_config"
     /\ ReadToString(configFile).ok
     /\ FromStrConfig(configFile.text).ok)
    => LET parsed == FromStrConfig(configFile.text).val
           lower == ToLowercase(parsed.naming_convention)
       IN  /\ last.res.ok <=> lower \in {<<"m","d","5">>, <<"i","d">>}
           /\ last.res.ok =>
                 last.res.val = [download_directory |-> parsed.download_directory,
                                 naming_convention |-> lower]
           /\ ~last.res.ok => last.res.err = ValidationError(lower)

\* load_config has rejected "SHA256" with an error naming "sha256"
C6_Witness ==
    /\ last.op = "Config.load_config"
    /\ FromStrConfig(configFile.text).ok
    /\ FromStrConfig(configFile.text).val.naming_convention = S_SHA256
    /\ last.res = Err(ValidationError(<<"s","h","a","2","5","6">>))

\* login.json as load() finds it: present, readable, parsing into a Login
LoginFileParses(f) ==
    /\ PathExists(f)
    /\ ReadToString(f).ok
    /\ FromStrLogin(f.text).ok

HasKey(text, key) == \E i \in 1..Len(text.members) : text.members[i].key = key

\* the one member of text under key holds value v
HoldsAt(text, key, v) ==
    /\ Cardinality({i \in 1..Len(text.members) : text.members[i].key = key}) = 1
    /\ \A i \in 1..Len(text.members) :
          text.members[i].key = key => text.members[i].val = v

\* field by field: the value the original text gives the key, or the default
KeptOrDefault(orig, key, dflt) ==
    IF HasKey(orig, key)
    THEN orig.members[CHOOSE i \in 1..Len(orig.members) : orig.members[i].key = key].val
    ELSE dflt

\* the returned login and the rewritten text keep each value of the original
\* text and hold the default for each field it lacks
ValuesPreserved(orig, login, text) ==
    /\ StrV(login.username) = KeptOrDefault(orig, K_Username, StrV(<<>>))
    /\ StrV(login.api_key) = KeptOrDefault(orig, K_APIKey, StrV(<<>>))
    /\ BoolV(login.download_favorites) =
          KeptOrDefault(orig, K_DownloadFavorites, BoolV(TRUE))
    /\ BoolV(login.ignore_blacklist_on_favorites) =
          KeptOrDefault(orig, K_IgnoreBlacklistOnFavorites, BoolV(TRUE))
    /\ HoldsAt(text, K_Username, StrV(login.username))
    /\ HoldsAt(text, K_APIKey, StrV(login.api_key))
    /\ HoldsAt(text, K_DownloadFavorites, BoolV(login.download_favorites))
    /\ HoldsAt(text, K_IgnoreBlacklistOnFavorites,
               BoolV(login.ignore_blacklist_on_favorites))

\* C7 (as claimed): whenever login.json exists, parses and lacks one of the
\* four fields as a JSON key, load() rewrites the file so that every field is
\* a key of it and does not fail, also when the missing field's name occurs
\* elsewhere in the text.  Stated for a file that can be written.
C7_StructuralSelfHealing ==
    [][(/\ last'.op = "Login.load"
        /\ LoginFileParses(loginFile)
        /\ loginFile.canWrite
        /\ \E i \in 1..Len(expected_keys) : ~HasKey(loginFile.text, expected_keys[i]))
         => /\ last'.res.ok
            /\ \A i \in 1..Len(expected_keys) :
                  HasKey(loginFile'.text, expected_keys[i])]_vars

C11_GetIffInitialized ==
    [][/\ last'.op = "Config.get" =>
             IF CONFIG.set
             THEN last'.res = Ok(CONFIG.val) /\ status' = "running"
             ELSE last'.res = Aborted /\ status' = "panicked"
       /\ last'.op = "Login.get" =>
             IF LOGIN.set
             THEN last'.res = Ok(LOGIN.val) /\ status' = "running"
             ELSE last'.res = Aborted /\ status' = "panicked"
       /\ status = "panicked" => vars' = vars]_vars

\* Config.get has panicked on the empty slot of a config.json that does not load
C11_Witness ==
    /\ last.op = "Config.get"
    /\ last.res = Aborted
    /\ status = "panicked"
    /\ ~CONFIG.set
    /\ ~LoadConfig(configFile).ok
    /\ LOGIN.set

C14_ConfigFileOnlyWrittenByCreate ==
    [][/\ last'.op \in {"Config.config_exists", "Config.load_config",
                        "Config.initialize", "Config.get"}
            => configFile' = configFile
       /\ last'.op = "Config.config_exists"
            => last'.res = Ok(BoolV(configFile.exists))
       /\ configFile' # configFile
            => last'.op \in {"Config.create_config", "edit"}]_vars

\* Config.initialize has stored "md5" and config.json still says "MD5"
C14_Witness ==
    /\ last.op = "Config.initialize"
    /\ last.res.ok
    /\ CONFIG.val = [download_directory |-> S_out, naming_convention |-> S_md5]
    /\ configFile.text =
          ToStringPrettyConfig([download_directory |-> S_out, naming_convention |-> S_MD5])

\* C15: a Config.initialize whose load fails leaves the slot as it was, so
\* on an empty slot it stays empty; after create_config has then written the
\* file the slot is still empty and the file loads; and Config.initialize on
\* an empty slot with a file that loads succeeds and stores what was loaded.
C15_FailedLoadKeepsSlotFree ==
    [][/\ (last'.op = "Config.initialize" /\ ~LoadConfig(configFile).ok)
            => /\ last'.res = Err(LoadConfig(configFile).err)
               /\ CONFIG' = CONFIG
       /\ (/\ last.op = "Config.initialize"
           /\ ~last.res.ok
           /\ ~CONFIG.set
           /\ last'.op = "Config.create_config"
           /\ last'.res.ok)
            => /\ ~CONFIG'.set
               /\ LoadConfig(configFile').ok
       /\ (last'.op = "Config.initialize" /\ ~CONFIG.set /\ LoadConfig(configFile).ok)
            => /\ last'.res = Ok(Unit)
               /\ CONFIG' = [set |-> TRUE, val |-> LoadConfig(configFile).val]]_vars

\* Config.initialize has failed on a missing config.json and the slot is empty
C15_Witness ==
    /\ last.op = "Config.initialize"
    /\ last.res = Err(ConfigReadError)
    /\ ~PathExists(configFile)
    /\ ~CONFIG.set

\* C16: when login.json exists but cannot be read or does not parse into a
\* Login, load() and Login.initialize leave the file as it is; the default
\* Login is substituted in memory only.
C16_BrokenLoginFileUntouched ==
    [][(/\ last'.op \in {"Login.load", "Login.initialize"}
        /\ PathExists(loginFile)
        /\ (~ReadToString(loginFile).ok \/ ~FromStrLogin(loginFile.text).ok))
         => /\ loginFile' = loginFile
            /\ last'.op = "Login.load" => ~last'.res.ok
            /\ (last'.op = "Login.initialize" /\ ~LOGIN.set)
                  => LOGIN' = [set |-> TRUE, val |-> ExpectedDefaultLogin]]_vars

\* Login.initialize has stored the default while a writable login.json
\* still holds the text that does not parse
C16_Witness ==
    /\ last.op = "Login.initialize"
    /\ last.res = Ok(Unit)
    /\ loginFile = FileOf(Garbage, <<TRUE, TRUE>>)
    /\ LOGIN.val = ExpectedDefaultLogin

\* C17: after a successful load(), a load() right after it returns an equal
\* Login and writes nothing: neither the creation nor the repair runs again.
C17_LoadIdempotent ==
    [][(last.op = "Login.load" /\ last.res.ok /\ last'.op = "Login.load")
         => /\ last'.res = last.res
            /\ loginFile' = loginFile
            /\ last'.log = {}]_vars

\* a load() has found the file a repair left behind and written nothing
C17_Witness ==
    /\ last.op = "Login.load"
    /\ last.res.ok
    /\ last.log = {}
    /\ last.res.val.username = S_bob
    /\ last.res.val.ignore_blacklist_on_favorites
    /\ loginFile.text = ToStringPrettyLogin(last.res.val)

\* the threads whose initialize returned Ok
Winners == {t \in Threads : threads[t].res = Ok(Unit)}

\* the cell of the store the threads initialize
SharedCell == ThreadCell(1)

\* C18: under every interleaving of concurrent initialize calls on one store,
\* at most one call returns Ok and the cell holds exactly the value that call
\* loaded, whole; every other call that reaches the set step returns the
\* "already initialized" error; a get() by a thread once the cell is set
\* returns that value; and a set cell is never written again.
C18_OneWinner ==
    /\ [](/\ Cardinality(Winners) <= 1
          /\ SharedCell.set <=> Winners # {}
          /\ \A t \in Winners : SharedCell.val = threads[t].value
          /\ SharedCell.set =>
                DOMAIN SharedCell.val =
                  DOMAIN (IF threads[1].store = "Config"
                          THEN ExpectedDefaultConfig ELSE ExpectedDefaultLogin)
          /\ \A t \in Threads :
                threads[t].pc = "got" => threads[t].got = Ok(SharedCell.val))
    /\ [][/\ SharedCell.set => SharedCell' = SharedCell
          /\ \A t \in Threads :
                /\ (threads[t].pc = "loaded" /\ threads'[t].pc = "done")
                     => threads'[t].res =
                          IF SharedCell.set THEN Err(AlreadyInitialized)
                          ELSE Ok(Unit)
                /\ (threads[t].pc = "done" /\ threads'[t].pc # "done"
                     /\ SharedCell.set)
                     => threads'[t].got = Ok(SharedCell.val)]_vars

\* two threads loaded different values; the first one's set succeeded, the
\* second one's failed, and both read the first one's value
C18_Witness ==
    /\ threads[1].res = Ok(Unit)
    /\ threads[2].res = Err(AlreadyInitialized)
    /\ threads[1].value # threads[2].value
    /\ threads[1].pc = "got"
    /\ threads[2].pc = "got"
    /\ threads[2].got = Ok(threads[1].value)

====
